---- MODULE Spec2Model ----
(***************************************************************************)
(* Admission validation of a batch of API deployment requests              *)
(* (pkg/operator/operator/validations.go).                                 *)
(*                                                                         *)
(* One behaviour is one call of ValidateClusterAPIs.  Quantities (CPU,     *)
(* memory) are integers in an abstract unit; strings that the code         *)
(* rewrites (endpoints) are sequences of one-character strings.            *)
(***************************************************************************)
EXTENDS Integers, Sequences, FiniteSets, TLC

(***************************************************************************)
(* Bounds of the model.                                                    *)
(***************************************************************************)
MaxBatch == 2
MaxReqCPU == 1
MaxReqMem == 1
MaxReqGPU == 1
MaxInstCPU == 3
MaxInstGPU == 1
MaxCapMem == 5
MaxVS == 2
MaxDupBatch == 4

(***************************************************************************)
(* Reservations (package-level quantities of package operator).            *)
(***************************************************************************)
_cortexCPUReserve == 1
_cortexMemReserve == 2
_nvidiaCPUReserve == 1
_nvidiaMemReserve == 1

VARIABLES
    apis,             \* the batch handed to ValidateClusterAPIs
    instCPU,          \* config.Cluster.InstanceMetadata.CPU
    instGPU,          \* config.Cluster.InstanceMetadata.GPU
    capMem,           \* the memory capacity the cluster reports
    clusterVS,        \* the virtual services published in the cluster
    pc,               \* position of the call
    i,                \* loop index of ValidateClusterAPIs (1-based)
    listTask,         \* first task of getValidationK8sResources
    memTask,          \* second task of getValidationK8sResources
    doneOrder,        \* the tasks in the order they completed
    virtualServices,  \* local of ValidateClusterAPIs
    maxMem,           \* the Quantity that the *kresource.Quantity points to
    result,           \* what ValidateClusterAPIs returned
    log,              \* history: the checks run, in order, with outcome
    avail,            \* history: what each validateCompute call compared with
    memoryConfigMap,  \* the memory capacity recorded in the cluster's ConfigMap
    clusterWrites,    \* history: the writes this call has made to the cluster
    otherPc,          \* position of a call made by another caller
    otherMaxMem,      \* the Quantity the other call's maxMem points to
    otherLeft         \* the requests the other call has still to check

vars == <<apis, instCPU, instGPU, capMem, clusterVS, pc, i, listTask, memTask,
          doneOrder, virtualServices, maxMem, result, log, avail,
          memoryConfigMap, clusterWrites, otherPc, otherMaxMem, otherLeft>>

inputs == <<apis, instCPU, instGPU, capMem, clusterVS>>

\* the ConfigMap and the history of the writes to it
configMap == <<memoryConfigMap, clusterWrites>>

\* the call of the other caller
other == <<otherPc, otherMaxMem, otherLeft>>

\* the call this model follows step by step
call == <<pc, i, listTask, memTask, doneOrder, virtualServices, maxMem, result,
          log, avail>>

(***************************************************************************)
(* Strings as sequences of characters.                                     *)
(***************************************************************************)
Slash == <<"/">>
PathX == <<"/", "x">>
PathXSlash == <<"/", "x", "/">>
PathY == <<"/", "y">>
Paths == {PathX, PathXSlash, PathY}
Names == {"a", "b"}
ApisGateway == "apis-gateway"

HasSuffix(str, suffix) ==
    /\ Len(str) >= Len(suffix)
    /\ SubSeq(str, Len(str) - Len(suffix) + 1, Len(str)) = suffix

\* s.EnsureSuffix: append the suffix unless the string already ends with it
EnsureSuffix(str, suffix) ==
    IF HasSuffix(str, suffix) THEN str ELSE str \o suffix

(***************************************************************************)
(* Quantity arithmetic (kresource.Quantity): Sub does not clamp.           *)
(***************************************************************************)
Sub(q, y) == q - y

Cmp(a, b) == IF a < b THEN -1 ELSE IF a = b THEN 0 ELSE 1

(***************************************************************************)
(* Errors.                                                                 *)
(***************************************************************************)
NoErr == [kind |-> "nil"]
NotReturned == [kind |-> "running"]
ErrorNoAPIs == [kind |-> "EmptyBatch"]
ErrorClusterState(task) == [kind |-> "ClusterStateUnavailable", task |-> task]
ErrorStructural(name) == [kind |-> "StructuralError", name |-> name]
ErrorNoAvailableNodeComputeLimit(resource, requested, available) ==
    [kind |-> "InsufficientCapacity", resource |-> resource,
     requested |-> requested, available |-> available]
ErrorDuplicateEndpoint(owner) == [kind |-> "RouteOwnedByOther", owner |-> owner]
ErrorExtract(what) == [kind |-> "ExtractError", what |-> what]
ErrorDuplicateName(dups) == [kind |-> "DuplicateIdentity", group |-> dups]
ErrorDuplicateEndpointInOneDeploy(dups) ==
    [kind |-> "DuplicateRoute", group |-> dups]

\* errors.Wrap(err, api.Identify(), ...): the error attributed to a request
Wrap(err, name) == err @@ [name |-> name]

\* errors.Wrap(err, api.Identify(), userconfig.EndpointKey, endpoint)
WrapEndpoint(err, name, endpoint) == err @@ [name |-> name, endpoint |-> endpoint]

(***************************************************************************)
(* validateCompute.  maxMem is a pointer: the subtraction is done in place *)
(* on the Quantity the caller holds, and the new value is handed back in   *)
(* field maxMem.  maxCPU is a copy of the configured Quantity.             *)
(***************************************************************************)
\* variant: the reservation is made whatever the GPU count
GPUReservedAlways(maxGPU) == maxGPU >= 0

GPUReserved(maxGPU) == maxGPU > 0

\* variant: a request equal to the maximum is refused
ExceedsQuantityStrict(max, requested) == Cmp(max, requested) <= 0

ExceedsQuantity(max, requested) == Cmp(max, requested) < 0

ExceedsGPU(requested, maxGPU) == requested > maxGPU

\* variant: the GPU count is compared before CPU and memory
validateComputeGPUFirst(compute, cfgCPU, cfgGPU, mem) ==
    LET mem1 == Sub(mem, _cortexMemReserve)
        cpu1 == Sub(cfgCPU, _cortexCPUReserve)
        maxGPU == cfgGPU
        maxCPU == IF GPUReserved(maxGPU) THEN Sub(cpu1, _nvidiaCPUReserve) ELSE cpu1
        mem2 == IF GPUReserved(maxGPU) THEN Sub(mem1, _nvidiaMemReserve) ELSE mem1
        err == IF ExceedsGPU(compute.gpu, maxGPU)
                 THEN ErrorNoAvailableNodeComputeLimit("GPU", compute.gpu, maxGPU)
               ELSE IF ExceedsQuantity(maxCPU, compute.cpu)
                 THEN ErrorNoAvailableNodeComputeLimit("CPU", compute.cpu, maxCPU)
               ELSE IF compute.hasMem /\ ExceedsQuantity(mem2, compute.mem)
                 THEN ErrorNoAvailableNodeComputeLimit("Memory", compute.mem, mem2)
               ELSE NoErr
    IN [err |-> err, maxMem |-> mem2, maxCPU |-> maxCPU, maxGPU |-> maxGPU]

\* variant: a request without a memory need is compared as a need of zero
validateComputeMemAlways(compute, cfgCPU, cfgGPU, mem) ==
    LET mem1 == Sub(mem, _cortexMemReserve)
        cpu1 == Sub(cfgCPU, _cortexCPUReserve)
        maxGPU == cfgGPU
        maxCPU == IF GPUReserved(maxGPU) THEN Sub(cpu1, _nvidiaCPUReserve) ELSE cpu1
        mem2 == IF GPUReserved(maxGPU) THEN Sub(mem1, _nvidiaMemReserve) ELSE mem1
        err == IF ExceedsQuantity(maxCPU, compute.cpu)
                 THEN ErrorNoAvailableNodeComputeLimit("CPU", compute.cpu, maxCPU)
               ELSE IF ExceedsQuantity(mem2, compute.mem)
                 THEN ErrorNoAvailableNodeComputeLimit("Memory", compute.mem, mem2)
               ELSE IF ExceedsGPU(compute.gpu, maxGPU)
                 THEN ErrorNoAvailableNodeComputeLimit("GPU", compute.gpu, maxGPU)
               ELSE NoErr
    IN [err |-> err, maxMem |-> mem2, maxCPU |-> maxCPU, maxGPU |-> maxGPU]

validateCompute(compute, cfgCPU, cfgGPU, mem) ==
    LET mem1 == Sub(mem, _cortexMemReserve)
        cpu1 == Sub(cfgCPU, _cortexCPUReserve)
        maxGPU == cfgGPU
        maxCPU == IF GPUReserved(maxGPU) THEN Sub(cpu1, _nvidiaCPUReserve) ELSE cpu1
        mem2 == IF GPUReserved(maxGPU) THEN Sub(mem1, _nvidiaMemReserve) ELSE mem1
        err == IF ExceedsQuantity(maxCPU, compute.cpu)
                 THEN ErrorNoAvailableNodeComputeLimit("CPU", compute.cpu, maxCPU)
               ELSE IF compute.hasMem /\ ExceedsQuantity(mem2, compute.mem)
                 THEN ErrorNoAvailableNodeComputeLimit("Memory", compute.mem, mem2)
               ELSE IF ExceedsGPU(compute.gpu, maxGPU)
                 THEN ErrorNoAvailableNodeComputeLimit("GPU", compute.gpu, maxGPU)
               ELSE NoErr
    IN [err |-> err, maxMem |-> mem2, maxCPU |-> maxCPU, maxGPU |-> maxGPU]

(***************************************************************************)
(* validateEndpointCollisions.  The endpoints of one virtual service are a *)
(* set that the code ranges over in map order, so the endpoint named in    *)
(* the error is any of the matching ones: the operator yields the set of   *)
(* errors the call can return.                                             *)
(***************************************************************************)
ExtractVirtualServiceGateways(vs) == [err |-> FALSE, val |-> vs.gateways]

ExtractVirtualServiceEndpoints(vs) == [err |-> FALSE, val |-> vs.endpoints]

\* variant: the endpoints are compared as written
SameEndpointExact(published, requested) == published = requested

SameEndpoint(published, requested) ==
    EnsureSuffix(published, Slash) = EnsureSuffix(requested, Slash)

\* variant: the owner of the published route is not looked at
CollidesAnyOwner(api, vs, endpoint) == SameEndpoint(endpoint, api.endpoint)

Collides(api, vs, endpoint) ==
    SameEndpoint(endpoint, api.endpoint) /\ vs.apiName /= api.name

RECURSIVE collisionsFrom(_, _, _)
collisionsFrom(api, vss, k) ==
    IF k > Len(vss) THEN {NoErr}
    ELSE LET vs == vss[k]
             gateways == ExtractVirtualServiceGateways(vs)
             endpoints == ExtractVirtualServiceEndpoints(vs)
             hits == {e \in endpoints.val : Collides(api, vs, e)}
         IN IF gateways.err THEN {ErrorExtract("gateways")}
            ELSE IF ApisGateway \notin gateways.val
              THEN collisionsFrom(api, vss, k + 1)
            ELSE IF endpoints.err THEN {ErrorExtract("endpoints")}
            ELSE IF hits /= {}
              THEN {WrapEndpoint(ErrorDuplicateEndpoint(vs.apiName), api.name, e) :
                       e \in hits}
            ELSE collisionsFrom(api, vss, k + 1)

validateEndpointCollisions(api, vss) == collisionsFrom(api, vss, 1)

(***************************************************************************)
(* findDuplicateNames / findDuplicateEndpoints.  The groups are kept in a  *)
(* map that is ranged over in map order: with several groups of more than  *)
(* one request any of them can be the one returned.                        *)
(***************************************************************************)
GroupByName(batch, name) == SelectSeq(batch, LAMBDA a : a.name = name)

GroupByEndpoint(batch, endpoint) ==
    SelectSeq(batch, LAMBDA a : a.endpoint = endpoint)

\* variant: a group of two names is not reported
findDuplicateNamesOverTwo(batch) ==
    LET names == {batch[k].name : k \in 1..Len(batch)}
        dups == {GroupByName(batch, n) : n \in {m \in names : Len(GroupByName(batch, m)) > 2}}
    IN IF dups = {} THEN {<<>>} ELSE dups

findDuplicateNames(batch) ==
    LET names == {batch[k].name : k \in 1..Len(batch)}
        dups == {GroupByName(batch, n) : n \in {m \in names : Len(GroupByName(batch, m)) > 1}}
    IN IF dups = {} THEN {<<>>} ELSE dups

\* variant: a group of two is not reported
findDuplicateEndpointsOverTwo(batch) ==
    LET endpoints == {batch[k].endpoint : k \in 1..Len(batch)}
        dups == {GroupByEndpoint(batch, e) :
                    e \in {f \in endpoints : Len(GroupByEndpoint(batch, f)) > 2}}
    IN IF dups = {} THEN {<<>>} ELSE dups

\* variant: the endpoints are grouped in trailing-slash form
findDuplicateEndpointsNormalised(batch) ==
    LET same(e) == SelectSeq(batch, LAMBDA a : SameEndpoint(a.endpoint, e))
        endpoints == {batch[k].endpoint : k \in 1..Len(batch)}
        dups == {same(e) : e \in {f \in endpoints : Len(same(f)) > 1}}
    IN IF dups = {} THEN {<<>>} ELSE dups

findDuplicateEndpoints(batch) ==
    LET endpoints == {batch[k].endpoint : k \in 1..Len(batch)}
        dups == {GroupByEndpoint(batch, e) :
                    e \in {f \in endpoints : Len(GroupByEndpoint(batch, f)) > 1}}
    IN IF dups = {} THEN {<<>>} ELSE dups

(***************************************************************************)
(* Initial states: the inputs of one call.                                 *)
(***************************************************************************)
Computes ==
    {[cpu |-> c, hasMem |-> FALSE, mem |-> 0, gpu |-> g] :
        c \in 0..MaxReqCPU, g \in 0..MaxReqGPU}
    \cup
    {[cpu |-> c, hasMem |-> TRUE, mem |-> m, gpu |-> g] :
        c \in 0..MaxReqCPU, m \in 0..MaxReqMem, g \in 0..MaxReqGPU}

\* a request that fits whatever the state of the cluster
SmallCompute == [cpu |-> 0, hasMem |-> FALSE, mem |-> 0, gpu |-> 0]

\* a request with a memory need
MemCompute == [cpu |-> 0, hasMem |-> TRUE, mem |-> 1, gpu |-> 0]

Request(name, endpoint, valid, compute) ==
    [name |-> name, endpoint |-> endpoint, valid |-> valid, compute |-> compute]

VirtualService(apiName, gateways, endpoints) ==
    [apiName |-> apiName, gateways |-> gateways, endpoints |-> endpoints]

SeqsUpTo(S, n) == UNION {[1..k -> S] : k \in 0..n}

\* requests that differ in their compute needs only
ComputeRequests == {Request("a", PathX, TRUE, c) : c \in Computes}

\* requests that differ in name and endpoint only
RouteRequests ==
    {Request(n, e, TRUE, SmallCompute) : n \in Names, e \in Paths}

\* requests that differ in every check
MixedRequests ==
    {Request(n, e, v, c) : n \in Names, e \in {PathX, PathY},
                           v \in BOOLEAN, c \in {SmallCompute, MemCompute}}

PublishedVS ==
    {VirtualService("c", {ApisGateway}, {PathX}),
     VirtualService("c", {ApisGateway}, {PathXSlash}),
     VirtualService("a", {ApisGateway}, {PathX}),
     VirtualService("c", {"operator-gateway"}, {PathX}),
     VirtualService("c", {ApisGateway, "operator-gateway"}, {PathX, PathXSlash})}

InitControl ==
    /\ pc = "start"
    /\ i = 0
    /\ listTask = "idle"
    /\ memTask = "idle"
    /\ doneOrder = <<>>
    /\ virtualServices = <<>>
    /\ maxMem = 0
    /\ result = NotReturned
    /\ log = <<>>
    /\ avail = <<>>
    /\ clusterWrites = 0

\* no other caller
NoOtherCall ==
    /\ otherPc = "idle"
    /\ otherMaxMem = 0
    /\ otherLeft = 0

\* validateCompute calls affect one another through maxMem only, whatever the
\* earlier requests asked for: the batches mix one request with minimal ones
InitCompute ==
    /\ \E r \in ComputeRequests :
          apis \in SeqsUpTo({r, Request("a", PathX, TRUE, SmallCompute)}, MaxBatch)
    /\ instCPU \in 0..MaxInstCPU
    /\ instGPU \in 0..MaxInstGPU
    /\ capMem \in 0..MaxCapMem
    /\ clusterVS = <<>>
    /\ memoryConfigMap = capMem + 1

InitRoutes ==
    /\ apis \in SeqsUpTo(RouteRequests, MaxBatch)
    /\ instCPU = MaxInstCPU
    /\ instGPU = 0
    /\ capMem = MaxCapMem
    /\ clusterVS \in SeqsUpTo(PublishedVS, MaxVS)
    /\ memoryConfigMap = capMem + 1

InitMixed ==
    /\ apis \in SeqsUpTo(MixedRequests, MaxBatch)
    /\ instCPU = MaxInstCPU
    /\ instGPU = 0
    /\ capMem \in {_cortexMemReserve, MaxCapMem - 1, MaxCapMem}
    /\ clusterVS \in {<<>>, <<VirtualService("a", {ApisGateway}, {PathXSlash})>>}
    /\ memoryConfigMap \in {capMem, capMem + 1}

\* batches long enough for two groups of duplicates
InitDuplicates ==
    /\ apis \in [1..MaxDupBatch -> {Request(n, e, TRUE, SmallCompute) :
                                       n \in Names, e \in {PathX, PathY}}]
    /\ instCPU = MaxInstCPU
    /\ instGPU = 0
    /\ capMem = MaxCapMem
    /\ clusterVS = <<>>
    /\ memoryConfigMap = capMem + 1

Init ==
    /\ InitControl
    /\ NoOtherCall
    /\ (InitCompute \/ InitRoutes \/ InitMixed \/ InitDuplicates)

(***************************************************************************)
(* ValidateClusterAPIs, step by step.                                      *)
(***************************************************************************)
\* variant: the empty check never fires
IsEmptyBatchNever(batch) == Len(batch) < 0

IsEmptyBatch(batch) == Len(batch) = 0

\* variant: the loop leaves out the last request
LoopHeadShort(k) == IF k >= Len(apis) THEN "findDuplicateNames" ELSE "validateAPI"

\* `for i := range apis`: the position after index k - 1 is done
LoopHead(k) == IF k > Len(apis) THEN "findDuplicateNames" ELSE "validateAPI"

Return(err) ==
    /\ result' = err
    /\ pc' = "done"

\* lines 35-39: the empty check, else the two reads are started
Start ==
    /\ pc = "start"
    /\ IF IsEmptyBatch(apis)
         THEN /\ Return(ErrorNoAPIs)
              /\ UNCHANGED <<listTask, memTask>>
         ELSE /\ pc' = "fetch"
              /\ listTask' = "running"
              /\ memTask' = "running"
              /\ UNCHANGED result
    /\ UNCHANGED <<inputs, configMap, other, i, doneOrder, virtualServices, maxMem, log, avail>>

\* lines 171-175: config.K8s.ListVirtualServices
ListVirtualServices ==
    /\ pc = "fetch"
    /\ listTask = "running"
    /\ \E ok \in BOOLEAN :
         /\ listTask' = IF ok THEN "ok" ELSE "err"
         /\ virtualServices' = IF ok THEN clusterVS ELSE virtualServices
    /\ doneOrder' = Append(doneOrder, "list")
    /\ UNCHANGED <<inputs, configMap, other, pc, i, memTask, maxMem, result, log, avail>>

\* lines 176-180: updateMemoryCapacityConfigMap reads the memory capacity and,
\* as its name says, brings the ConfigMap that records it up to date
UpdateMemoryCapacityConfigMap ==
    /\ pc = "fetch"
    /\ memTask = "running"
    /\ \E ok \in BOOLEAN :
         /\ memTask' = IF ok THEN "ok" ELSE "err"
         /\ maxMem' = IF ok THEN capMem ELSE maxMem
         /\ IF ok /\ memoryConfigMap /= capMem
              THEN /\ memoryConfigMap' = capMem
                   /\ clusterWrites' = clusterWrites + 1
              ELSE UNCHANGED configMap
    /\ doneOrder' = Append(doneOrder, "mem")
    /\ UNCHANGED <<inputs, other, pc, i, listTask, virtualServices, result, log,
                   avail>>

TaskState(task) == IF task = "list" THEN listTask ELSE memTask

\* parallel.RunFirstErr: the error of the first task that failed
FirstErr ==
    LET failed == SelectSeq(doneOrder, LAMBDA t : TaskState(t) = "err")
    IN IF failed = <<>> THEN NoErr ELSE ErrorClusterState(Head(failed))

\* variant: the wait ends as soon as one task has failed
AllTasksDoneOrOneFailed ==
    \/ listTask \in {"ok", "err"} /\ memTask \in {"ok", "err"}
    \/ listTask = "err"
    \/ memTask = "err"

\* parallel.RunFirstErr: the wait for every task it started
AllTasksDone ==
    /\ listTask \in {"ok", "err"}
    /\ memTask \in {"ok", "err"}

\* variant: the error of getValidationK8sResources is dropped
JoinErrorDropped ==
    /\ pc = "fetch"
    /\ AllTasksDone
    /\ i' = 1
    /\ pc' = LoopHead(1)
    /\ UNCHANGED result
    /\ UNCHANGED <<inputs, configMap, other, listTask, memTask, doneOrder, virtualServices,
                   maxMem, log, avail>>

\* lines 170-183 and 39-42: both tasks are joined, then the error check
Join ==
    /\ pc = "fetch"
    /\ AllTasksDone
    /\ IF FirstErr /= NoErr
         THEN /\ Return(FirstErr)
              /\ UNCHANGED i
         ELSE /\ i' = 1
              /\ pc' = LoopHead(1)
              /\ UNCHANGED result
    /\ UNCHANGED <<inputs, configMap, other, listTask, memTask, doneOrder, virtualServices,
                   maxMem, log, avail>>

Logged(check, err) == Append(log, [idx |-> i, check |-> check, err |-> err])

\* variant: the error of spec.ValidateAPI is dropped
ValidateAPIErrorDropped ==
    /\ pc = "validateAPI"
    /\ LET err == IF apis[i].valid THEN NoErr ELSE ErrorStructural(apis[i].name)
       IN /\ log' = Logged("structural", err)
          /\ pc' = "validateCompute"
          /\ UNCHANGED result
    /\ UNCHANGED <<inputs, configMap, other, i, listTask, memTask, doneOrder, virtualServices,
                   maxMem, avail>>

\* lines 45-47: spec.ValidateAPI
ValidateAPI ==
    /\ pc = "validateAPI"
    /\ LET err == IF apis[i].valid THEN NoErr ELSE ErrorStructural(apis[i].name)
       IN /\ log' = Logged("structural", err)
          /\ IF err /= NoErr
               THEN Return(err)
               ELSE /\ pc' = "validateCompute"
                    /\ UNCHANGED result
    /\ UNCHANGED <<inputs, configMap, other, i, listTask, memTask, doneOrder, virtualServices,
                   maxMem, avail>>

\* variant: the in-place subtraction reaches the capacity the cluster records
ValidateComputeAliased ==
    /\ pc = "validateCompute"
    /\ LET r == validateCompute(apis[i].compute, instCPU, instGPU, maxMem)
           err == IF r.err = NoErr THEN NoErr ELSE Wrap(r.err, apis[i].name)
       IN /\ maxMem' = r.maxMem
          /\ memoryConfigMap' = r.maxMem
          /\ clusterWrites' = clusterWrites + 1
          /\ avail' = Append(avail, [idx |-> i, memBefore |-> maxMem,
                                     cpu |-> r.maxCPU, mem |-> r.maxMem,
                                     gpu |-> r.maxGPU, err |-> r.err])
          /\ log' = Logged("feasibility", err)
          /\ IF err /= NoErr
               THEN Return(err)
               ELSE /\ pc' = "validateEndpointCollisions"
                    /\ UNCHANGED result
    /\ UNCHANGED <<inputs, other, i, listTask, memTask, doneOrder,
                   virtualServices>>

\* lines 71-73: validateCompute, its error wrapped with the request's identity
ValidateCompute ==
    /\ pc = "validateCompute"
    /\ LET r == validateCompute(apis[i].compute, instCPU, instGPU, maxMem)
           err == IF r.err = NoErr THEN NoErr ELSE Wrap(r.err, apis[i].name)
       IN /\ maxMem' = r.maxMem
          /\ avail' = Append(avail, [idx |-> i, memBefore |-> maxMem,
                                     cpu |-> r.maxCPU, mem |-> r.maxMem,
                                     gpu |-> r.maxGPU, err |-> r.err])
          /\ log' = Logged("feasibility", err)
          /\ IF err /= NoErr
               THEN Return(err)
               ELSE /\ pc' = "validateEndpointCollisions"
                    /\ UNCHANGED result
    /\ UNCHANGED <<inputs, configMap, other, i, listTask, memTask, doneOrder, virtualServices>>

\* lines 75-79 and 44, 48-51: validateEndpointCollisions, then the next request
ValidateEndpointCollisions ==
    /\ pc = "validateEndpointCollisions"
    /\ \E err \in validateEndpointCollisions(apis[i], virtualServices) :
         /\ log' = Logged("collision", err)
         /\ IF err /= NoErr
              THEN /\ Return(err)
                   /\ UNCHANGED i
              ELSE /\ i' = i + 1
                   /\ pc' = LoopHead(i + 1)
                   /\ UNCHANGED result
    /\ UNCHANGED <<inputs, configMap, other, listTask, memTask, doneOrder, virtualServices,
                   maxMem, avail>>

\* variant: the duplicate names are found and the error is dropped
FindDuplicateNamesErrorDropped ==
    /\ pc = "findDuplicateNames"
    /\ \E dups \in findDuplicateNames(apis) :
         /\ pc' = "findDuplicateEndpoints"
         /\ UNCHANGED result
    /\ UNCHANGED <<inputs, configMap, other, i, listTask, memTask, doneOrder, virtualServices,
                   maxMem, log, avail>>

\* lines 53-56
FindDuplicateNames ==
    /\ pc = "findDuplicateNames"
    /\ \E dups \in findDuplicateNames(apis) :
         IF Len(dups) > 0
           THEN Return(ErrorDuplicateName(dups))
           ELSE /\ pc' = "findDuplicateEndpoints"
                /\ UNCHANGED result
    /\ UNCHANGED <<inputs, configMap, other, i, listTask, memTask, doneOrder, virtualServices,
                   maxMem, log, avail>>

\* lines 58-63
FindDuplicateEndpoints ==
    /\ pc = "findDuplicateEndpoints"
    /\ \E dups \in findDuplicateEndpoints(apis) :
         IF Len(dups) > 0
           THEN Return(ErrorDuplicateEndpointInOneDeploy(dups))
           ELSE Return(NoErr)
    /\ UNCHANGED <<inputs, configMap, other, i, listTask, memTask, doneOrder, virtualServices,
                   maxMem, log, avail>>

Next ==
    \/ Start
    \/ ListVirtualServices
    \/ UpdateMemoryCapacityConfigMap
    \/ Join
    \/ ValidateAPI
    \/ ValidateCompute
    \/ ValidateEndpointCollisions
    \/ FindDuplicateNames
    \/ FindDuplicateEndpoints

Spec == Init /\ [][Next]_vars

(***************************************************************************)
(* A second call, made by another caller while the first one runs.  Only   *)
(* what the two calls could share is kept of it: the Quantity its capacity *)
(* read returns, which its validateCompute calls subtract from in place,   *)
(* the configuration both read, and the ConfigMap both bring up to date.   *)
(***************************************************************************)
InitConcurrent ==
    /\ InitControl
    /\ apis \in SeqsUpTo({Request("a", PathX, TRUE, MemCompute),
                          Request("b", PathY, TRUE, SmallCompute)}, MaxBatch)
    /\ instCPU \in {0, _cortexCPUReserve, MaxInstCPU}
    /\ instGPU = 0
    /\ capMem \in {MaxCapMem - 1, MaxCapMem}
    /\ clusterVS = <<>>
    /\ memoryConfigMap = capMem + 1
    /\ otherPc = "start"
    /\ otherMaxMem = 0
    /\ otherLeft = MaxBatch

\* lines 176-180 in the other call: its capacity read returns a Quantity of
\* its own
OtherFetch ==
    /\ otherPc = "start"
    /\ \E ok \in BOOLEAN :
         IF ok
           THEN /\ otherPc' = "validateCompute"
                /\ otherMaxMem' = capMem
                /\ memoryConfigMap' = capMem
           ELSE /\ otherPc' = "failed"
                /\ UNCHANGED <<otherMaxMem, memoryConfigMap>>
    /\ UNCHANGED <<inputs, call, clusterWrites, otherLeft>>

\* variant: the reservation is subtracted from the configuration's CPU in place
OtherValidateComputeInPlaceCPU ==
    /\ otherPc = "validateCompute"
    /\ LET r == validateCompute(SmallCompute, instCPU, instGPU, otherMaxMem)
       IN /\ otherMaxMem' = r.maxMem
          /\ instCPU' = r.maxCPU
          /\ otherLeft' = otherLeft - 1
          /\ otherPc' = IF r.err /= NoErr \/ otherLeft = 1
                          THEN "done" ELSE "validateCompute"
    /\ UNCHANGED <<apis, instGPU, capMem, clusterVS, call, configMap>>

\* lines 82-107 in the other call: maxCPU and maxGPU are copies of the
\* configuration's values, maxMem points to the other call's Quantity
OtherValidateCompute ==
    /\ otherPc = "validateCompute"
    /\ LET r == validateCompute(SmallCompute, instCPU, instGPU, otherMaxMem)
       IN /\ otherMaxMem' = r.maxMem
          /\ otherLeft' = otherLeft - 1
          /\ otherPc' = IF r.err /= NoErr \/ otherLeft = 1
                          THEN "done" ELSE "validateCompute"
    /\ UNCHANGED <<inputs, call, configMap>>

NextConcurrent ==
    \/ Start
    \/ ListVirtualServices
    \/ UpdateMemoryCapacityConfigMap
    \/ Join
    \/ ValidateAPI
    \/ ValidateCompute
    \/ ValidateEndpointCollisions
    \/ FindDuplicateNames
    \/ FindDuplicateEndpoints
    \/ OtherFetch
    \/ OtherValidateCompute

SpecConcurrent == InitConcurrent /\ [][NextConcurrent]_vars

(***************************************************************************)
(* Vocabulary of the properties.                                           *)
(***************************************************************************)
\* the capacity left to user workloads, derived once from the raw capacity
AvailableCPU ==
    instCPU - _cortexCPUReserve - (IF instGPU > 0 THEN _nvidiaCPUReserve ELSE 0)

AvailableMemory ==
    capMem - _cortexMemReserve - (IF instGPU > 0 THEN _nvidiaMemReserve ELSE 0)

AvailableGPU == instGPU

\* the log entries of one kind of check
Entries(check) == {n \in 1..Len(log) : log[n].check = check}

\* request k has been through the check and passed it
Passed(k, check) ==
    \E n \in Entries(check) : log[n].idx = k /\ log[n].err = NoErr

\* the outcome request k gets when it is the only request of the batch
FeasibleAlone(k) ==
    validateCompute(apis[k].compute, instCPU, instGPU, capMem).err = NoErr

Returned == pc = "done"

\* a path in trailing-slash form
Canonical(path) ==
    IF path /= <<>> /\ path[Len(path)] = "/" THEN path ELSE Append(path, "/")

\* the owners of the published routes that the request collides with
CollidingOwners(api, vss) ==
    {vss[j].apiName : j \in {k \in 1..Len(vss) :
        /\ ApisGateway \in vss[k].gateways
        /\ vss[k].apiName /= api.name
        /\ \E e \in vss[k].endpoints : Canonical(e) = Canonical(api.endpoint)}}

\* C1: every request of a batch gets the feasibility outcome it gets when
\* validated alone against the same fetched capacity, whatever the size of
\* the batch and its position in it.
C1_FeasibilityIndependentOfBatch ==
    \A n \in Entries("feasibility") :
        (log[n].err = NoErr) <=> FeasibleAlone(log[n].idx)

\* C2: when the k-th request is compared, available CPU and memory are the
\* raw capacity minus the reservations, each subtracted exactly once, the same
\* for every request.
C2_ReservationsSubtractedOnce ==
    \A n \in 1..Len(avail) :
        /\ avail[n].cpu = AvailableCPU
        /\ avail[n].mem = AvailableMemory

\* C3: a batch of zero requests fails with EmptyBatch, and no cluster read is
\* started before the call returns.
C3_EmptyBatchFailsBeforeFetch ==
    Len(apis) = 0 =>
        /\ pc \in {"start", "done"}
        /\ listTask = "idle" /\ memTask = "idle" /\ doneOrder = <<>>
        /\ Returned => result = ErrorNoAPIs

C3_Witness ==
    Returned /\ Len(apis) = 0 /\ result = ErrorNoAPIs /\ listTask = "idle"

\* C4: the call returns success if and only if the batch is non-empty, the
\* cluster state fetch succeeded, every request passed the structural, the
\* feasibility and the collision check, no two requests share a name and no
\* two requests share an endpoint.
AllPassed ==
    \A k \in 1..Len(apis) :
        /\ Passed(k, "structural")
        /\ Passed(k, "feasibility")
        /\ Passed(k, "collision")

UniqueNames ==
    \A j, k \in 1..Len(apis) : j /= k => apis[j].name /= apis[k].name

UniqueEndpoints ==
    \A j, k \in 1..Len(apis) : j /= k => apis[j].endpoint /= apis[k].endpoint

C4_SuccessIffEveryStepPassed ==
    Returned =>
        ((result = NoErr) <=>
            /\ Len(apis) > 0
            /\ listTask = "ok" /\ memTask = "ok"
            /\ AllPassed
            /\ \A k \in 1..Len(apis) :
                  apis[k].valid /\ CollidingOwners(apis[k], clusterVS) = {}
            /\ UniqueNames
            /\ UniqueEndpoints)

C4_Witness ==
    Returned /\ result = NoErr /\ Len(apis) = MaxBatch /\ AllPassed

\* C5: requests are checked in declaration order, structural before
\* feasibility before collision, and the call stops at the first failure: a
\* failed check is the last one run and its error is the one returned.
CheckOrder == <<"structural", "feasibility", "collision">>

C5_DeclarationOrderFirstFailure ==
    \A n \in 1..Len(log) :
        /\ log[n].idx = ((n - 1) \div 3) + 1
        /\ log[n].check = CheckOrder[((n - 1) % 3) + 1]
        /\ log[n].err /= NoErr =>
              /\ n = Len(log)
              /\ Returned
              /\ result = log[n].err

\* the first request fails its feasibility check and the second, which is
\* structurally invalid, is never looked at
C5_Witness ==
    /\ Returned
    /\ Len(apis) >= 2
    /\ ~apis[2].valid
    /\ Len(log) = 2
    /\ log[2].err /= NoErr
    /\ result = log[2].err

\* C6: the duplicate passes run only after every request has passed: the call
\* returns DuplicateIdentity or DuplicateRoute only if every request passed
\* the structural, feasibility and collision checks, so a batch with a
\* request that is invalid on its own never yields a duplicate error.
IsDuplicateError(err) == err.kind \in {"DuplicateIdentity", "DuplicateRoute"}

ValidAlone(k) ==
    /\ apis[k].valid
    /\ FeasibleAlone(k)
    /\ validateEndpointCollisions(apis[k], clusterVS) = {NoErr}

C6_DuplicatesOnlyAfterAllPassed ==
    /\ pc \in {"findDuplicateNames", "findDuplicateEndpoints"} => AllPassed
    /\ (Returned /\ IsDuplicateError(result)) =>
          /\ AllPassed
          /\ \A k \in 1..Len(apis) : ValidAlone(k)

C6_Witness ==
    /\ Returned
    /\ result.kind = "DuplicateRoute"
    /\ Len(apis) = MaxBatch
    /\ AllPassed

\* C7: the feasibility boundary is inclusive: a single request whose CPU,
\* memory (if present) and GPU equal the available capacity is feasible, and
\* a resource fails only when the request is strictly above what is available.
C7_InclusiveBoundary ==
    \A n \in Entries("feasibility") :
        Len(apis) = 1 =>
            LET c == apis[1].compute
                err == log[n].err
                failed(resource) ==
                    err.kind = "InsufficientCapacity" /\ err.resource = resource
            IN /\ (/\ c.cpu <= AvailableCPU
                   /\ c.hasMem => c.mem <= AvailableMemory
                   /\ c.gpu <= AvailableGPU) => err = NoErr
               /\ failed("CPU") => c.cpu > AvailableCPU
               /\ failed("Memory") => c.hasMem /\ c.mem > AvailableMemory
               /\ failed("GPU") => c.gpu > AvailableGPU

C7_Witness ==
    /\ Len(apis) = 1
    /\ apis[1].compute.cpu = AvailableCPU
    /\ apis[1].compute.hasMem
    /\ apis[1].compute.mem = AvailableMemory
    /\ apis[1].compute.gpu = AvailableGPU
    /\ AvailableGPU > 0
    /\ Passed(1, "feasibility")

\* C8: feasibility errors are attributed in the order CPU, memory, GPU and
\* only the first violated resource is reported.
C8_ErrorOrderCPUMemoryGPU ==
    \A n \in 1..Len(avail) :
        LET c == apis[avail[n].idx].compute
            err == avail[n].err
            overCPU == c.cpu > avail[n].cpu
            overMem == c.hasMem /\ c.mem > avail[n].mem
            overGPU == c.gpu > avail[n].gpu
            failed(resource) ==
                err.kind = "InsufficientCapacity" /\ err.resource = resource
        IN /\ overCPU => failed("CPU")
           /\ failed("Memory") <=> (~overCPU /\ overMem)
           /\ failed("GPU") <=> (~overCPU /\ ~overMem /\ overGPU)

\* every resource is exceeded and CPU is the one reported
C8_Witness ==
    \E n \in 1..Len(avail) :
        LET c == apis[avail[n].idx].compute
        IN /\ c.cpu > avail[n].cpu
           /\ c.hasMem /\ c.mem > avail[n].mem
           /\ c.gpu > avail[n].gpu
           /\ Returned
           /\ result.kind = "InsufficientCapacity"
           /\ result.resource = "CPU"

\* C9: a validateCompute call subtracts the GPU-device-plugin reservation
\* from CPU and memory if and only if the raw GPU capacity is above 0 (with
\* raw GPU 0 only the platform reservation), and never reduces the GPU count.
C9_GPUReservationIffGPU ==
    \A n \in 1..Len(avail) :
        /\ instGPU = 0 =>
              /\ avail[n].cpu = instCPU - _cortexCPUReserve
              /\ avail[n].mem = avail[n].memBefore - _cortexMemReserve
        /\ instGPU >= 1 =>
              /\ avail[n].cpu = instCPU - _cortexCPUReserve - _nvidiaCPUReserve
              /\ avail[n].mem =
                    avail[n].memBefore - _cortexMemReserve - _nvidiaMemReserve
        /\ avail[n].gpu = instGPU
        /\ n = 1 => avail[n].memBefore = capMem

C9_Witness ==
    /\ instGPU >= 1
    /\ Len(avail) >= 1
    /\ avail[1].mem = capMem - _cortexMemReserve - _nvidiaMemReserve
    /\ avail[1].cpu = instCPU - _cortexCPUReserve - _nvidiaCPUReserve
    /\ avail[1].gpu = instGPU

\* C10: the collision check fails with RouteOwnedByOther naming the owner
\* whenever a published route on the ingress gateway has the request's path,
\* both taken in trailing-slash form, and another owner; a published /x
\* collides with a requested /x/ and a published /x/ with a requested /x.
C10_CollisionWithOtherOwner ==
    /\ Canonical(PathX) = Canonical(PathXSlash)
    /\ \A n \in Entries("collision") :
          LET api == apis[log[n].idx]
              owners == CollidingOwners(api, virtualServices)
          IN owners /= {} =>
                /\ log[n].err.kind = "RouteOwnedByOther"
                /\ log[n].err.owner \in owners
                /\ log[n].err.name = api.name
                /\ Returned /\ result = log[n].err

\* a published /x owned by another API against a requested /x/
C10_Witness ==
    /\ Returned
    /\ result.kind = "RouteOwnedByOther"
    /\ apis[i].endpoint = PathXSlash
    /\ \A k \in 1..Len(virtualServices) :
          virtualServices[k].endpoints = {PathX}

\* C11: the collision check reports no collision that is not one: it passes
\* whenever every published route with the request's path (in trailing-slash
\* form) is owned by the request's own name or is not on the ingress gateway.
C11_NoFalseCollision ==
    \A n \in Entries("collision") :
        LET api == apis[log[n].idx]
        IN (\A k \in 1..Len(virtualServices) :
               (\E e \in virtualServices[k].endpoints :
                    Canonical(e) = Canonical(api.endpoint))
               => \/ virtualServices[k].apiName = api.name
                  \/ ApisGateway \notin virtualServices[k].gateways)
           => log[n].err = NoErr

\* a request that passes over its own published route
C11_Witness ==
    \E n \in Entries("collision") :
        /\ log[n].err = NoErr
        /\ \E k \in 1..Len(virtualServices) :
              /\ virtualServices[k].apiName = apis[log[n].idx].name
              /\ ApisGateway \in virtualServices[k].gateways
              /\ \E e \in virtualServices[k].endpoints :
                    Canonical(e) = Canonical(apis[log[n].idx].endpoint)

\* C12: a batch whose requests all passed and in which two requests share a
\* name fails with DuplicateIdentity, and the group reported is one whole
\* group of more than one request of the same name, whether or not endpoints
\* are duplicated too.
SameNameCount(name) == Cardinality({k \in 1..Len(apis) : apis[k].name = name})

IsWholeNameGroup(group) ==
    /\ Len(group) > 1
    /\ \A j \in 1..Len(group) :
          /\ group[j].name = group[1].name
          /\ \E k \in 1..Len(apis) : apis[k] = group[j]
    /\ Len(group) = SameNameCount(group[1].name)

C12_DuplicateIdentityWholeGroup ==
    (Returned /\ AllPassed /\ ~UniqueNames) =>
        /\ result.kind = "DuplicateIdentity"
        /\ IsWholeNameGroup(result.group)

C12_Witness ==
    /\ Returned
    /\ AllPassed
    /\ ~UniqueNames
    /\ UniqueEndpoints
    /\ result.kind = "DuplicateIdentity"
    /\ Len(result.group) = 2

\* C13: the name pass runs before the endpoint pass: a batch whose requests
\* all passed and that has both a duplicate name and a duplicate endpoint
\* fails with DuplicateIdentity, and DuplicateRoute is returned only when all
\* names are unique.
C13_NamePassBeforeRoutePass ==
    /\ (Returned /\ AllPassed /\ ~UniqueNames /\ ~UniqueEndpoints) =>
          result.kind = "DuplicateIdentity"
    /\ (Returned /\ result.kind = "DuplicateRoute") => UniqueNames
    /\ pc = "findDuplicateEndpoints" => UniqueNames

C13_Witness ==
    /\ Returned
    /\ AllPassed
    /\ ~UniqueNames
    /\ ~UniqueEndpoints
    /\ result.kind = "DuplicateIdentity"

\* C18: a request that declares no memory never fails on memory, whatever
\* the available memory (zero and negative included); a request whose memory
\* is present and zero is still compared and fails when the available memory
\* is negative.
C18_AbsentMemoryNotCompared ==
    \A n \in 1..Len(avail) :
        LET c == apis[avail[n].idx].compute
            failedMemory == /\ avail[n].err.kind = "InsufficientCapacity"
                            /\ avail[n].err.resource = "Memory"
        IN /\ ~c.hasMem => ~failedMemory
           /\ (~c.hasMem /\ c.cpu <= avail[n].cpu /\ c.gpu <= avail[n].gpu)
                 => avail[n].err = NoErr
           /\ (c.hasMem /\ c.mem = 0 /\ c.cpu <= avail[n].cpu /\ avail[n].mem < 0)
                 => failedMemory

\* with negative available memory the request without memory passes and the
\* request with memory zero fails
C18_Witness ==
    /\ Len(avail) = 2
    /\ ~apis[1].compute.hasMem
    /\ avail[1].mem < 0
    /\ avail[1].err = NoErr
    /\ apis[2].compute.hasMem
    /\ apis[2].compute.mem = 0
    /\ Returned
    /\ result.kind = "InsufficientCapacity"
    /\ result.resource = "Memory"

\* C20: the endpoint pass groups by the endpoint as written: a batch whose
\* requests all passed and whose names are unique fails with DuplicateRoute
\* if and only if two requests have the same endpoint character by character;
\* /x and /x/ in one batch are not duplicates.
C20_RoutePassExactString ==
    (Returned /\ Len(apis) > 0 /\ AllPassed /\ UniqueNames) =>
        /\ (result.kind = "DuplicateRoute") <=> ~UniqueEndpoints
        /\ UniqueEndpoints => result = NoErr
        /\ result.kind = "DuplicateRoute" =>
              /\ Len(result.group) > 1
              /\ \A j \in 1..Len(result.group) :
                    result.group[j].endpoint = result.group[1].endpoint

C20_Witness ==
    /\ Returned
    /\ result = NoErr
    /\ \E j, k \in 1..Len(apis) :
          apis[j].endpoint = PathX /\ apis[k].endpoint = PathXSlash

\* C14: for a non-empty batch the cluster state is fetched once, before any
\* check of a request; if a read fails the call returns the error of one of
\* the failed reads and no request is checked.
C14_FetchOnceBeforeChecks ==
    /\ Len(doneOrder) <= 2
    /\ Len(doneOrder) = 2 => doneOrder[1] /= doneOrder[2]
    /\ (Returned /\ Len(apis) > 0) => Len(doneOrder) = 2
    /\ (log /= <<>> \/ avail /= <<>>) => (listTask = "ok" /\ memTask = "ok")
    /\ (Returned /\ (listTask = "err" \/ memTask = "err")) =>
          /\ result.kind = "ClusterStateUnavailable"
          /\ TaskState(result.task) = "err"
          /\ log = <<>>
          /\ avail = <<>>

\* both reads fail and the batch is left unchecked
C14_Witness ==
    /\ Returned
    /\ Len(apis) = MaxBatch
    /\ listTask = "err"
    /\ memTask = "err"
    /\ result.kind = "ClusterStateUnavailable"
    /\ log = <<>>

\* C15: the two reads run as independent tasks and are joined: the fetcher
\* returns only when both have completed, also when one has already failed,
\* and no request is checked while a read is in flight.
C15_ReadsJoinedBeforeReturn ==
    /\ (Len(apis) > 0 /\ pc \notin {"start", "fetch"}) => AllTasksDone
    /\ log /= <<>> => AllTasksDone
    /\ Returned => listTask /= "running" /\ memTask /= "running"

\* the capacity read failed first and the route listing still completed
C15_Witness ==
    /\ Returned
    /\ doneOrder = <<"mem", "list">>
    /\ memTask = "err"
    /\ listTask = "ok"
    /\ result = ErrorClusterState("mem")

RECURSIVE outcomesFrom(_, _)
outcomesFrom(k, mem) ==
    IF k > Len(apis)
      THEN LET names == findDuplicateNames(apis) \ {<<>>}
               endpoints == findDuplicateEndpoints(apis) \ {<<>>}
           IN IF names /= {}
                THEN {ErrorDuplicateName(d) : d \in names}
                ELSE IF endpoints /= {}
                       THEN {ErrorDuplicateEndpointInOneDeploy(d) : d \in endpoints}
                       ELSE {NoErr}
      ELSE IF ~apis[k].valid
             THEN {ErrorStructural(apis[k].name)}
             ELSE LET r == validateCompute(apis[k].compute, instCPU, instGPU, mem)
                      cs == validateEndpointCollisions(apis[k], clusterVS)
                  IN IF r.err /= NoErr
                       THEN {Wrap(r.err, apis[k].name)}
                       ELSE (cs \ {NoErr}) \cup
                            (IF NoErr \in cs
                               THEN outcomesFrom(k + 1, r.maxMem)
                               ELSE {})

Outcomes ==
    IF IsEmptyBatch(apis)
      THEN {ErrorNoAPIs}
      ELSE IF FirstErr /= NoErr THEN {FirstErr} ELSE outcomesFrom(1, capMem)

\* the duplicate groups the batch has
NameGroups == findDuplicateNames(apis) \ {<<>>}
EndpointGroups == findDuplicateEndpoints(apis) \ {<<>>}

\* C19: the outcome of a call is determined by the batch and the fetched
\* cluster state, and a failure names one request or one duplicate group,
\* also when the batch has more than one group of duplicates.
C19_OutcomeDetermined ==
    (Returned /\ AllTasksDone /\ FirstErr = NoErr) =>
        /\ Outcomes = {result}
        /\ result.kind = "DuplicateIdentity" => NameGroups = {result.group}
        /\ result.kind = "DuplicateRoute" => EndpointGroups = {result.group}

\* C17: with another caller's call interleaved in every possible way, a call
\* returns what it returns when it runs alone, and the capacity each call
\* compares with is changed by that call's own subtractions only.
C17_NoInterference ==
    /\ (Returned /\ AllTasksDone) => result \in Outcomes
    /\ \A n \in 1..Len(avail) :
          /\ avail[n].memBefore = capMem - (n - 1) * _cortexMemReserve
          /\ avail[n].cpu = instCPU - _cortexCPUReserve
    /\ otherPc \in {"validateCompute", "done"} =>
          otherMaxMem = capMem - (MaxBatch - otherLeft) * _cortexMemReserve

\* both calls have subtracted from their Quantity, and the first one passed
C17_Witness ==
    /\ Returned
    /\ result = NoErr
    /\ Len(avail) = 2
    /\ otherPc = "done"
    /\ otherLeft = 0
    /\ otherMaxMem < capMem

====
